---- MODULE Spec2Model ----
(***************************************************************************)
(* Crash-safety guard of PGlite's NodeFS backend (directory lock marker,   *)
(* partial-initdb detector) and the crash-injection harness of its test    *)
(* suite.                                                                  *)
(*                                                                         *)
(* Every file-system call and every process-table call of the guard is one *)
(* step of the process that makes it; steps of different processes         *)
(* interleave freely and a process can be killed between any two steps.    *)
(***************************************************************************)
EXTENDS Integers, Sequences, FiniteSets, TLC

\* ------------------------------------------------------------------ bounds
NumProcs == 2      \* processes that open the data directory
MaxInst  == 2      \* NodeFS instances a process may create
MaxTime  == 1      \* Date.now() ranges over 0..MaxTime
MaxBase  == 4      \* entries of base/ in a directory handed to the detector
MaxRuns  == 2      \* check-and-quarantine runs in a row

Procs == 1..NumProcs
Pids  == 1..NumProcs   \* the pids the operating system hands out
Inst  == 1..MaxInst
Times == 0..MaxTime

\* ------------------------------------------------------- marker file text
\* File contents are sequences of one-character strings.
NL == "\n"
DigitChars == <<"0", "1", "2", "3", "4", "5", "6", "7", "8", "9">>

IsDigit(c) == \E d \in 1..10 : DigitChars[d] = c
DigitVal(c) == (CHOOSE d \in 1..10 : DigitChars[d] = c) - 1
IsSpace(c) == c \in {" ", NL}

\* `${n}` for a non-negative integer
RECURSIVE ToDigits(_)
ToDigits(n) ==
  IF n < 10 THEN <<DigitChars[n + 1]>>
  ELSE ToDigits(n \div 10) \o <<DigitChars[(n % 10) + 1]>>

\* `${process.pid}\n${Date.now()}\n`
LockText(pid, ts) == ToDigits(pid) \o <<NL>> \o ToDigits(ts) \o <<NL>>

\* String.prototype.trim
RECURSIVE TrimLeft(_)
TrimLeft(s) == IF s # <<>> /\ IsSpace(Head(s)) THEN TrimLeft(Tail(s)) ELSE s
RECURSIVE TrimRight(_)
TrimRight(s) ==
  IF s # <<>> /\ IsSpace(s[Len(s)]) THEN TrimRight(SubSeq(s, 1, Len(s) - 1)) ELSE s
Trim(s) == TrimRight(TrimLeft(s))

\* content.split('\n')[0]
RECURSIVE FirstLine(_)
FirstLine(s) ==
  IF s = <<>> \/ Head(s) = NL THEN <<>> ELSE <<Head(s)>> \o FirstLine(Tail(s))

\* value of the longest prefix of decimal digits, continuing from acc
RECURSIVE DigitsValue(_, _)
DigitsValue(s, acc) ==
  IF s # <<>> /\ IsDigit(Head(s)) THEN DigitsValue(Tail(s), 10 * acc + DigitVal(Head(s)))
  ELSE acc

\* parseInt(s, 10): leading white space skipped, an optional sign, then digits;
\* NaN when no digit follows.
ParseInt(s) ==
  LET t    == TrimLeft(s)
      neg  == t # <<>> /\ Head(t) = "-"
      body == IF t # <<>> /\ Head(t) \in {"-", "+"} THEN Tail(t) ELSE t
  IN  IF body = <<>> \/ ~IsDigit(Head(body)) THEN [nan |-> TRUE, val |-> 0]
      ELSE [nan |-> FALSE,
            val |-> IF neg THEN 0 - DigitsValue(body, 0) ELSE DigitsValue(body, 0)]

\* const pid = parseInt(content.trim().split('\n')[0], 10)
MarkerPid(content) == ParseInt(FirstLine(Trim(content)))

\* `pid && !isNaN(pid)`
Truthy(n) == ~n.nan /\ n.val # 0

\* fs.writeSync(fd, text) on a descriptor at offset 0: the text replaces the
\* first Len(text) characters of the file and leaves a longer tail in place.
WriteAt0(old, text) ==
  IF Len(old) > Len(text) THEN text \o SubSeq(old, Len(text) + 1, Len(old)) ELSE text

\* ------------------------------------------------------- files, directories
\* The marker file <rootDir>.lock: whether the path names a file, and its text.
NoFile == [exists |-> FALSE, text |-> <<>>]
File(text) == [exists |-> TRUE, text |-> text]

\* A directory, as far as the guard and the engine look at it:
\*   exists    the path names a directory
\*   listable  readdirSync succeeds on it
\*   ver       PG_VERSION exists
\*   other     entries besides PG_VERSION and base/ exist (conf files, global/)
\*   base      -1: no base/ subdirectory, else the number of entries of base/
\*   done      initdb ran to completion on this content
Missing ==
  [exists |-> FALSE, listable |-> FALSE, ver |-> FALSE, other |-> FALSE, base |-> -1,
   done |-> FALSE]
EmptyDir == [Missing EXCEPT !.exists = TRUE, !.listable = TRUE]

\* fs.readdirSync(rootDir).length
EntryCount(d) ==
  (IF d.ver THEN 1 ELSE 0) + (IF d.other THEN 1 ELSE 0) + (IF d.base >= 0 THEN 1 ELSE 0)

\* `entries.length === 0`
IsEmpty_atMostOne(d) == EntryCount(d) <= 1
IsEmpty(d) == EntryCount(d) = 0

\* ------------------------------------------------------------------- state
VARIABLES
  now,       \* Date.now()
  alive,     \* alive[p]: process p is running
  pidOf,     \* pidOf[p]: the pid of process p (0 before it starts)
  pc,        \* pc[p]: the call the process makes next
  cur,       \* cur[p]: the NodeFS instance whose init()/closeFs() is running
  rd,        \* rd[p]: `content`, the text #acquireLock read from the marker
  inst,      \* inst[p][i]: [st, fd, err] of NodeFS instance i of process p
  marker,    \* the marker file <rootDir>.lock
  dir,       \* the data directory <rootDir>
  backups,   \* backups[t]: the directory <rootDir>.corrupt-<t> (Missing: none)
  obs,       \* obs[p]: what the running #acquireLock concluded from the marker
  overlap,   \* two live processes were inside #acquireLock at once since the
             \* lock was last free
  dir0,      \* the data directory as the latest check-and-quarantine run found it
  runs       \* completed check-and-quarantine runs in a row (SpecQ)

lockVars == <<now, alive, pidOf, pc, cur, rd, inst, marker, dir, backups, obs, overlap, dir0, runs>>

\* crashTest(options) of the test harness: one run
VARIABLES
  hOpt,      \* the options: [killOnMessage, killAfterMs, signal]
  hClock,    \* milliseconds since the timers were set
  child,     \* the worker process: "running", "stopped" or "gone"
  chan,      \* messages the worker has sent that the coordinator has not handled
  messages,  \* `messages`, the transcript
  killed,    \* `killed`
  killTimer, \* `killTimer`: "unset", "armed", "fired" or "cleared"
  safety,    \* the safety setTimeout: "unset", "armed" or "fired"
  sigs,      \* the signals child.kill() has sent, in order: [sig, by, live]
  exitEv,    \* the worker's 'exit' event: [st, code, sig], st "none", "queued" or "handled"
  result,    \* the promise: [st, workerKilled, workerError, workerExitCode, workerSignal]
  workerError, \* `workerError`: "null" or the message of the child's 'error' event
  errEv,     \* the child's 'error' event: "none", "queued" or "handled"
  pipe,      \* chunks the worker has written to its stdout, not yet read
  stdout     \* `stdout`, by the number of chunks appended to it

crashVars ==
  <<hOpt, hClock, child, chan, messages, killed, killTimer, safety, sigs, exitEv, result,
    workerError, errEv, pipe, stdout>>

\* tryOpen(dataDir, timeoutMs) of the test harness, called by process 1
VARIABLES
  tInst,     \* the instance `db` of the call under way or last made, 0 before any
  tTimer,    \* the setTimeout of the race: "unset", "armed" or "fired"
  tRes       \* the call: [st, success, db, error], st "idle", "racing" or "returned"

openVars == <<tInst, tTimer, tRes>>

\* verifyIntegrity(db) of the test harness: one call
VARIABLES
  vPc,       \* where the call stands: "idle", "base", "tables", "count",
             \* "indexes", "icheck", "ret" or "done"
  vIssues,   \* `issues`
  vRep,      \* what the call returned: [st, intact, issues]
  vTodo,     \* rows of the listing the running loop has not reached
  vN,        \* rows the table listing returned
  vM,        \* rows the index listing returned
  vLayers,   \* the layers the call has executed, of 1, 2, 3
  vFailed,   \* some query of the call has failed
  vOwner,    \* the `tablename` column of the index listing, row by row
  vChecks    \* the per-table and per-index checks run so far, with outcome

verVars == <<vPc, vIssues, vRep, vTodo, vN, vM, vLayers, vFailed, vOwner, vChecks>>

\* the recovery checks a test runs on the directory after the crash
VARIABLES
  sPc,               \* where the checks of kill-during-checkpoint stand
  corruptionDetails, \* `corruptionDetails`, by the heading of each message
  sFailed,           \* the checks that have failed
  metaTodo,          \* rows of ckpt_meta not yet compared
  pStep,             \* the statement of Step 5 to run next
  probeRows,         \* per ckpt_t table, its committed rows of cycle 9999
  rPc,               \* where the post-recovery write of the WAL recovery test stands
  recoveryRows       \* rows of recovery_test that test has added

scnVars == <<sPc, corruptionDetails, sFailed, metaTodo, pStep, probeRows, rPc, recoveryRows>>

toolVars == <<openVars, verVars, scnVars>>

\* what the calls of #releaseLock have met so far
VARIABLES
  rel        \* "gone": a call found the marker path already absent;
             \* "again": a call ran on an instance released before

relVars == <<rel>>

\* the worker of kill-during-transaction.js and the engine under it
VARIABLES
  xState,    \* the worker: "idle", "running", "killed", or "reopened" once the
             \* test has opened the directory again
  xScript,   \* the statements the worker runs, in order
  xPc,       \* the statement the worker runs next
  disk,      \* the committed rows of `items`
  view,      \* the rows of `items` as the worker's session sees them
  inTxn,     \* the session is between BEGIN and COMMIT
  snap,      \* the committed rows when BEGIN ran
  lost,      \* what the session saw when the worker was killed
  seen       \* the rows the reopened database returns

txVars == <<xState, xScript, xPc, disk, view, inTxn, snap, lost, seen>>

hVars == <<crashVars, toolVars, relVars, txVars>>

vars == <<lockVars, hVars>>

\* ------------------------------------------------------------ NodeFS state
\* A NodeFS instance:
\*   st   "none" (not constructed), "opening", "failed" (init threw the lock
\*        error), "ctorfail" (the constructor threw), "ready", "broken" (the
\*        engine could not start on the directory), "closed"
\*   fd   #lockFd: "null"; "linked"/"orphan" between openSync and writeSync
\*        (the descriptor's file is / is no longer the one at the marker
\*        path); "open" once #acquireLock has returned
\*   err  the pid named by the lock error, 0 when none was thrown
NewInst == [st |-> "none", fd |-> "null", err |-> 0]

\* a process with that pid exists
LivePid(pid) == \E q \in Procs : alive[q] /\ pidOf[q] = pid

\* #isProcessAlive(pid): process.kill(pid, 0) succeeds
IsProcessAlive_never(pid) == FALSE
IsProcessAlive_always(pid) == TRUE
IsProcessAlive(pid) == LivePid(pid)

\* process.kill(pid, 0) with a negative pid addresses the process group -pid,
\* and with -1 every process the caller may signal, itself among them; whether
\* a group exists is not the program's to decide
ProbeGroup(pid) == IF pid = 0 - 1 THEN {TRUE} ELSE BOOLEAN

\* the answers #isProcessAlive(pid) can give
Probe(pid) == IF pid > 0 THEN {IsProcessAlive(pid)} ELSE ProbeGroup(pid)

\* between the marker check and the marker write of #acquireLock
AcqWindow == {"acq_read", "acq_probe", "acq_open", "acq_write"}
InWindow(p) == alive[p] /\ pc[p] \in AcqWindow

\* instance i of live process p has acquired and not released
Holder(p, i) == alive[p] /\ inst[p][i].fd = "open"
Holding(p) == \E i \in Inst : Holder(p, i)

Overlapping == \E p, q \in Procs : p # q /\ InWindow(p) /\ InWindow(q)
InUse == \E p \in Procs : InWindow(p) \/ Holding(p)

\* bookkeeping of `overlap`, part of every step
Track == overlap' = IF InUse' THEN (overlap \/ Overlapping') ELSE FALSE

\* ------------------------------------------------------------------- Init
FreshInst == [p \in Procs |-> [i \in Inst |-> NewInst]]

InitLock ==
  /\ now = 0
  /\ alive = [p \in Procs |-> FALSE]
  /\ pidOf = [p \in Procs |-> 0]
  /\ pc = [p \in Procs |-> "unborn"]
  /\ cur = [p \in Procs |-> 0]
  /\ rd = [p \in Procs |-> <<>>]
  /\ inst = FreshInst
  /\ marker = NoFile
  /\ dir = Missing
  /\ backups = [t \in Times |-> Missing]
  /\ obs = [p \in Procs |-> "none"]
  /\ overlap = FALSE
  /\ dir0 = Missing
  /\ runs = 0

\* ------------------------------------------------------ process life cycle
\* Date.now() advances
Tick ==
  /\ now < MaxTime
  /\ now' = now + 1
  /\ UNCHANGED <<alive, pidOf, pc, cur, rd, inst, marker, dir, backups, obs, dir0, runs>>
  /\ Track
  /\ UNCHANGED hVars

\* the pids fork() may hand out next: one no live process has; pids are
\* numbered in the order they first appear
NextPids ==
  {pid \in Pids : ~LivePid(pid) /\ \A k \in 1..(pid - 1) : \E q \in Procs : pidOf[q] = k}

\* the process starts
Start(p, pid) ==
  /\ alive' = [alive EXCEPT ![p] = TRUE]
  /\ pidOf' = [pidOf EXCEPT ![p] = pid]
  /\ pc' = [pc EXCEPT ![p] = "idle"]
  /\ UNCHANGED <<now, cur, rd, inst, marker, dir, backups, obs, dir0, runs>>
  /\ Track
  /\ UNCHANGED hVars

\* fork(): process p starts, after the processes before it have started
Spawn(p, pid) ==
  /\ pc[p] = "unborn"
  /\ \A q \in Procs : q < p => pc[q] # "unborn"
  /\ pid \in NextPids
  /\ Start(p, pid)

\* fork() of the next worker of a kill cycle: the worker before it has exited
Respawn(pid) ==
  /\ \A q \in Procs : ~alive[q]
  /\ pid \in Pids
  /\ Start(1, pid)

\* child.kill('SIGKILL') or process.exit(): the process is gone, its
\* descriptors are closed, the files it wrote stay as they are
Kill(p) ==
  /\ alive[p]
  /\ alive' = [alive EXCEPT ![p] = FALSE]
  /\ pc' = [pc EXCEPT ![p] = "dead"]
  /\ cur' = [cur EXCEPT ![p] = 0]
  /\ rd' = [rd EXCEPT ![p] = <<>>]
  /\ inst' = [inst EXCEPT ![p] = [i \in Inst |-> NewInst]]
  /\ obs' = [obs EXCEPT ![p] = "none"]
  /\ UNCHANGED <<now, pidOf, marker, dir, backups, dir0, runs>>
  /\ Track
  /\ UNCHANGED hVars

\* new PGlite(dataDir): the process constructs its next NodeFS instance
NewPGlite(p, i) ==
  /\ alive[p] /\ pc[p] = "idle"
  /\ inst[p][i].st = "none"
  /\ \A j \in Inst : j < i => inst[p][j].st # "none"
  /\ pc' = [pc EXCEPT ![p] = "ctor"]
  /\ cur' = [cur EXCEPT ![p] = i]
  /\ inst' = [inst EXCEPT ![p][i].st = "opening"]
  /\ UNCHANGED <<now, alive, pidOf, rd, marker, dir, backups, obs, dir0, runs>>
  /\ Track

StartOpen(p, i) == NewPGlite(p, i) /\ UNCHANGED hVars

\* the running call ends: the instance settles in state st
Settle(p, st) ==
  /\ pc' = [pc EXCEPT ![p] = "idle"]
  /\ cur' = [cur EXCEPT ![p] = 0]
  /\ inst' = [inst EXCEPT ![p][cur[p]].st = st]

\* constructor: fs.existsSync(rootDir)
CtorExists(p) ==
  /\ alive[p] /\ pc[p] = "ctor"
  /\ pc' = [pc EXCEPT ![p] = IF dir.exists THEN "acq_exists" ELSE "ctor_mkdir"]
  /\ UNCHANGED <<now, alive, pidOf, cur, rd, inst, marker, dir, backups, obs, dir0, runs>>
  /\ Track
  /\ UNCHANGED hVars

\* constructor: fs.mkdirSync(rootDir); EEXIST leaves the constructor
CtorMkdir(p) ==
  /\ alive[p] /\ pc[p] = "ctor_mkdir"
  /\ IF dir.exists
       THEN /\ Settle(p, "ctorfail")
            /\ UNCHANGED dir
       ELSE /\ dir' = EmptyDir
            /\ pc' = [pc EXCEPT ![p] = "acq_exists"]
            /\ UNCHANGED <<cur, inst>>
  /\ UNCHANGED <<now, alive, pidOf, rd, marker, backups, obs, dir0, runs>>
  /\ Track
  /\ UNCHANGED hVars

\* init(): this.#acquireLock() is followed by this.#cleanPartialInit()
AfterAcquire_engine == "eng_start"
AfterAcquire == "cpi_list"

\* ------------------------------------------------------------ #acquireLock
\* fs.existsSync(lockPath)
AcqExists(p) ==
  /\ alive[p] /\ pc[p] = "acq_exists"
  /\ IF marker.exists
       THEN /\ pc' = [pc EXCEPT ![p] = "acq_read"]
            /\ obs' = [obs EXCEPT ![p] = "none"]
       ELSE /\ pc' = [pc EXCEPT ![p] = "acq_open"]
            /\ obs' = [obs EXCEPT ![p] = "absent"]
  /\ UNCHANGED <<now, alive, pidOf, cur, rd, inst, marker, dir, backups, dir0, runs>>
  /\ Track
  /\ UNCHANGED hVars

\* fs.readFileSync(lockPath) and the parse of its first line. A marker that is
\* gone by now makes readFileSync throw; the catch swallows that error.
AcqRead(p) ==
  /\ alive[p] /\ pc[p] = "acq_read"
  /\ IF ~marker.exists
       THEN /\ pc' = [pc EXCEPT ![p] = "acq_open"]
            /\ obs' = [obs EXCEPT ![p] = "absent"]
            /\ UNCHANGED rd
       ELSE IF Truthy(MarkerPid(marker.text))
       THEN /\ pc' = [pc EXCEPT ![p] = "acq_probe"]
            /\ rd' = [rd EXCEPT ![p] = marker.text]
            /\ UNCHANGED obs
       ELSE /\ pc' = [pc EXCEPT ![p] = "acq_open"]
            /\ obs' = [obs EXCEPT ![p] = "corrupt"]
            /\ UNCHANGED rd
  /\ UNCHANGED <<now, alive, pidOf, cur, inst, marker, dir, backups, dir0, runs>>
  /\ Track
  /\ UNCHANGED hVars

\* this.#isProcessAlive(pid): a live owner makes init() throw the lock error
\* naming it, a dead one makes the marker stale
AcqProbe(p) ==
  /\ alive[p] /\ pc[p] = "acq_probe"
  /\ LET pid == MarkerPid(rd[p]).val IN
       \E a \in Probe(pid) :
       IF a
       THEN /\ pc' = [pc EXCEPT ![p] = "idle"]
            /\ cur' = [cur EXCEPT ![p] = 0]
            /\ inst' = [inst EXCEPT ![p][cur[p]].st = "failed", ![p][cur[p]].err = pid]
            /\ obs' = [obs EXCEPT ![p] = "live"]
       ELSE /\ pc' = [pc EXCEPT ![p] = "acq_open"]
            /\ obs' = [obs EXCEPT ![p] = "stale"]
            /\ UNCHANGED <<cur, inst>>
  /\ rd' = [rd EXCEPT ![p] = <<>>]
  /\ UNCHANGED <<now, alive, pidOf, marker, dir, backups, dir0, runs>>
  /\ Track
  /\ UNCHANGED hVars

\* this.#lockFd = fs.openSync(lockPath, 'w'): creates the file or empties it
AcqOpen(p) ==
  /\ alive[p] /\ pc[p] = "acq_open"
  /\ marker' = File(<<>>)
  /\ inst' = [inst EXCEPT ![p][cur[p]].fd = "linked"]
  /\ pc' = [pc EXCEPT ![p] = "acq_write"]
  /\ UNCHANGED <<now, alive, pidOf, cur, rd, dir, backups, obs, dir0, runs>>
  /\ Track
  /\ UNCHANGED hVars

\* fs.writeSync(this.#lockFd, `${process.pid}\n${Date.now()}\n`); a descriptor
\* whose file was unlinked meanwhile writes to a file no path names
AcqWrite(p) ==
  /\ alive[p] /\ pc[p] = "acq_write"
  /\ marker' = IF inst[p][cur[p]].fd = "linked"
                THEN File(WriteAt0(marker.text, LockText(pidOf[p], now)))
                ELSE marker
  /\ inst' = [inst EXCEPT ![p][cur[p]].fd = "open"]
  /\ pc' = [pc EXCEPT ![p] = AfterAcquire]
  /\ UNCHANGED <<now, alive, pidOf, cur, rd, dir, backups, obs, dir0, runs>>
  /\ Track
  /\ UNCHANGED hVars

\* ------------------------------------------------------------ #releaseLock
\* descriptors of the file at the marker path, once the path is unlinked
Unlinked(f) == IF f.fd = "linked" THEN [f EXCEPT !.fd = "orphan"] ELSE f

\* fs.unlinkSync(lockPath) throws ENOENT when the path is absent
UnlinkThrows(m) == m = NoFile

\* try { fs.unlinkSync(lockPath) } catch { }: whether what the body throws
\* leaves #releaseLock
Escapes_uncaught(threw) == threw
Escapes(threw) == FALSE

\* `if (this.#lockFd !== null)`
HasLockFd_always(f) == TRUE
HasLockFd(f) == f.fd # "null"

\* closeFs() -> #releaseLock(): with a descriptor, close it and unlink the
\* marker path (an absent marker is ignored); without one, nothing
ReleaseLock(p, i) ==
  IF HasLockFd(inst[p][i])
  THEN /\ marker' = NoFile
       /\ inst' = [q \in Procs |-> [j \in Inst |->
                     IF q = p /\ j = i
                     THEN [inst[p][i] EXCEPT
                             !.st = IF Escapes(UnlinkThrows(marker)) THEN "raised" ELSE "closed",
                             !.fd = "null"]
                     ELSE Unlinked(inst[q][j])]]
       /\ rel' = rel \cup (IF marker = NoFile THEN {"gone"} ELSE {})
  ELSE /\ UNCHANGED marker
       /\ inst' = [inst EXCEPT ![p][i].st = "closed"]
       /\ rel' = rel \cup (IF inst[p][i].st = "closed" THEN {"again"} ELSE {})

Close(p, i) ==
  /\ alive[p] /\ pc[p] = "idle"
  /\ inst[p][i].st \in {"ready", "broken", "failed", "closed"}
  /\ ReleaseLock(p, i)
  /\ UNCHANGED <<now, alive, pidOf, pc, cur, rd, dir, backups, obs, dir0, runs>>
  /\ Track
  /\ UNCHANGED <<crashVars, toolVars, txVars>>

\* ------------------------------------------------------ #cleanPartialInit
BaseThreshold == 3

\* `databases.length < 3`
PartialBase_le(n) == n <= BaseThreshold
PartialBase_never(n) == FALSE
PartialBase(n) == n < BaseThreshold

\* the call returns (or its catch swallowed an error): init() goes on to
\* hand the directory to the engine
CpiReturn(p) == pc' = [pc EXCEPT ![p] = "eng_start"]

\* fs.readdirSync(this.rootDir) throws on a directory that is gone or cannot
\* be read; the catch of #cleanPartialInit swallows the error
ReaddirThrows_never(d) == FALSE
ReaddirThrows(d) == ~d.exists \/ ~d.listable

\* fs.readdirSync(this.rootDir); `if (entries.length === 0) return`
CpiList(p) ==
  /\ alive[p] /\ pc[p] = "cpi_list"
  /\ IF ReaddirThrows(dir) \/ IsEmpty(dir)
       THEN CpiReturn(p)
       ELSE pc' = [pc EXCEPT ![p] = "cpi_ver"]
  /\ UNCHANGED <<now, alive, pidOf, cur, rd, inst, marker, dir, backups, obs, dir0, runs>>
  /\ Track
  /\ UNCHANGED hVars

\* fs.existsSync(pgVersionPath)
CpiVer(p) ==
  /\ alive[p] /\ pc[p] = "cpi_ver"
  /\ pc' = [pc EXCEPT ![p] = IF dir.exists /\ dir.ver THEN "cpi_base" ELSE "mv_rename"]
  /\ UNCHANGED <<now, alive, pidOf, cur, rd, inst, marker, dir, backups, obs, dir0, runs>>
  /\ Track
  /\ UNCHANGED hVars

\* fs.existsSync(basePath)
CpiBase(p) ==
  /\ alive[p] /\ pc[p] = "cpi_base"
  /\ pc' = [pc EXCEPT ![p] = IF dir.exists /\ dir.base >= 0 THEN "cpi_dbs" ELSE "mv_rename"]
  /\ UNCHANGED <<now, alive, pidOf, cur, rd, inst, marker, dir, backups, obs, dir0, runs>>
  /\ Track
  /\ UNCHANGED hVars

\* fs.readdirSync(basePath); `if (databases.length < 3)`
CpiDbs(p) ==
  /\ alive[p] /\ pc[p] = "cpi_dbs"
  /\ IF dir.exists /\ dir.base >= 0 /\ PartialBase(dir.base)
       THEN pc' = [pc EXCEPT ![p] = "mv_rename"]
       ELSE CpiReturn(p)
  /\ UNCHANGED <<now, alive, pidOf, cur, rd, inst, marker, dir, backups, obs, dir0, runs>>
  /\ Track
  /\ UNCHANGED hVars

\* what renaming rootDir does to the marker: lockPath is rootDir + '.lock', a
\* sibling of the directory and not an entry of it, so it stays where it is
MarkerAfterRename_inside(m) == NoFile
MarkerAfterRename(m) == m

\* #moveDataDirToBackup: fs.renameSync(this.rootDir, backupPath), the backup
\* path named after the current time. The rename throws when the directory is
\* gone or when the backup path names a directory that is not empty; the
\* catch of #cleanPartialInit swallows the error.
MvRename(p) ==
  /\ alive[p] /\ pc[p] = "mv_rename"
  /\ IF ~dir.exists \/ (backups[now].exists /\ EntryCount(backups[now]) > 0)
       THEN /\ CpiReturn(p)
            /\ UNCHANGED <<dir, backups>>
       ELSE /\ backups' = [backups EXCEPT ![now] = dir]
            /\ dir' = Missing
            /\ pc' = [pc EXCEPT ![p] = "mv_mkdir"]
  /\ marker' = (IF pc'[p] = "mv_mkdir" THEN MarkerAfterRename(marker) ELSE marker)
  /\ UNCHANGED <<now, alive, pidOf, cur, rd, inst, obs, dir0, runs>>
  /\ Track
  /\ UNCHANGED hVars

\* #moveDataDirToBackup: fs.mkdirSync(this.rootDir), then the warning
MvMkdir(p) ==
  /\ alive[p] /\ pc[p] = "mv_mkdir"
  /\ IF dir.exists
       THEN UNCHANGED dir
       ELSE dir' = EmptyDir
  /\ CpiReturn(p)
  /\ UNCHANGED <<now, alive, pidOf, cur, rd, inst, marker, backups, obs, dir0, runs>>
  /\ Track
  /\ UNCHANGED hVars

\* ------------------------------------------------------------- the engine
\* The engine mounts the directory. With PG_VERSION present it skips initdb
\* and starts the backend, which works only on a completely initialized
\* directory; without it, it runs initdb.
EngineStart(p) ==
  /\ alive[p] /\ pc[p] = "eng_start"
  /\ IF ~dir.exists \/ ~dir.listable THEN Settle(p, "broken")
     ELSE IF dir.ver THEN Settle(p, IF dir.done THEN "ready" ELSE "broken")
     ELSE /\ pc' = [pc EXCEPT ![p] = "initdb"]
          /\ UNCHANGED <<cur, inst>>
  /\ UNCHANGED <<now, alive, pidOf, rd, marker, dir, backups, obs, dir0, runs>>
  /\ Track
  /\ UNCHANGED hVars

\* the databases initdb creates: base/1, base/4, base/5
InitdbDatabases == 3

\* what the next stage of initdb leaves in the directory: PG_VERSION and the
\* directory structure (in either order), then base/1, base/4, base/5
InitdbStages(d) ==
  {[d EXCEPT !.ver = TRUE] : x \in {y \in {1} : ~d.ver}}
  \cup {[d EXCEPT !.other = TRUE, !.base = IF d.base < 0 THEN 0 ELSE d.base]
          : x \in {y \in {1} : ~d.other}}
  \cup {[d EXCEPT !.base = d.base + 1]
          : x \in {y \in {1} : d.ver /\ d.other /\ d.base < InitdbDatabases}}

\* one stage of initdb, or its completion once base/ holds the three
\* databases; initdb fails when the directory is gone
InitdbStep(p) ==
  /\ alive[p] /\ pc[p] = "initdb"
  /\ IF ~dir.exists
       THEN /\ Settle(p, "broken")
            /\ UNCHANGED dir
       ELSE IF InitdbStages(dir) # {}
       THEN /\ dir' \in InitdbStages(dir)
            /\ UNCHANGED <<pc, cur, inst>>
       ELSE /\ dir' = [dir EXCEPT !.done = TRUE]
            /\ Settle(p, "ready")
  /\ UNCHANGED <<now, alive, pidOf, rd, marker, backups, obs, dir0, runs>>
  /\ Track
  /\ UNCHANGED hVars

\* ---------------------------------------------------------- specifications
\* Any number of processes open, close and die on one data directory.
Next ==
  \/ Tick
  \/ \E p \in Procs, pid \in Pids : Spawn(p, pid)
  \/ \E p \in Procs : Kill(p)
  \/ \E p \in Procs, i \in Inst : StartOpen(p, i)
  \/ \E p \in Procs : CtorExists(p)
  \/ \E p \in Procs : CtorMkdir(p)
  \/ \E p \in Procs : AcqExists(p)
  \/ \E p \in Procs : AcqRead(p)
  \/ \E p \in Procs : AcqProbe(p)
  \/ \E p \in Procs : AcqOpen(p)
  \/ \E p \in Procs : AcqWrite(p)
  \/ \E p \in Procs, i \in Inst : Close(p, i)
  \/ \E p \in Procs : CpiList(p)
  \/ \E p \in Procs : CpiVer(p)
  \/ \E p \in Procs : CpiBase(p)
  \/ \E p \in Procs : CpiDbs(p)
  \/ \E p \in Procs : MvRename(p)
  \/ \E p \in Procs : MvMkdir(p)
  \/ \E p \in Procs : EngineStart(p)
  \/ \E p \in Procs : InitdbStep(p)

NoExit == [st |-> "none", code |-> "null", sig |-> "null"]
Pending ==
  [st |-> "pending", workerKilled |-> FALSE, workerError |-> "null",
   workerExitCode |-> "null", workerSignal |-> "null", stdout |-> 0]

NotCalled == [st |-> "idle", success |-> FALSE, db |-> 0, error |-> "null"]

\* no harness run is under way
InitCrash0 ==
  /\ hOpt = [killOnMessage |-> "null", killAfterMs |-> 0, signal |-> "SIGKILL"]
  /\ hClock = 0
  /\ child = "gone"
  /\ chan = <<>>
  /\ messages = <<>>
  /\ killed = FALSE
  /\ killTimer = "unset"
  /\ safety = "fired"
  /\ sigs = <<>>
  /\ exitEv = NoExit
  /\ result = Pending
  /\ workerError = "null"
  /\ errEv = "none"
  /\ pipe = 0
  /\ stdout = 0

InitOpen0 ==
  /\ tInst = 0
  /\ tTimer = "unset"
  /\ tRes = NotCalled

InitVer0 ==
  /\ vPc = "idle"
  /\ vIssues = <<>>
  /\ vRep = [st |-> "none", intact |-> FALSE, issues |-> <<>>]
  /\ vTodo = 0 /\ vN = 0 /\ vM = 0
  /\ vLayers = {}
  /\ vFailed = FALSE
  /\ vOwner = <<>> /\ vChecks = <<>>

ProbeTables == 5   \* ckpt_t0 .. ckpt_t4
Tables == 1..ProbeTables

InitScn0 ==
  /\ sPc = "idle" /\ corruptionDetails = <<>> /\ sFailed = {}
  /\ metaTodo = 0 /\ pStep = 0
  /\ probeRows = [t \in Tables |-> 0]
  /\ rPc = "idle" /\ recoveryRows = 0

InitRel0 == rel = {}

InitTx0 ==
  /\ xState = "idle" /\ xScript = <<>> /\ xPc = 1
  /\ disk = {} /\ view = {} /\ inTxn = FALSE /\ snap = {} /\ lost = {} /\ seen = {}

InitH0 == InitCrash0 /\ InitOpen0 /\ InitVer0 /\ InitScn0 /\ InitRel0 /\ InitTx0

Init == InitLock /\ InitH0

Spec == Init /\ [][Next]_vars

\* Kill cycles: one worker at a time opens the directory and is killed; the
\* next worker starts after it has exited.
NextSeq ==
  \/ Tick
  \/ \E pid \in Pids : Respawn(pid)
  \/ Kill(1)
  \/ \E i \in Inst : StartOpen(1, i)
  \/ CtorExists(1)
  \/ CtorMkdir(1)
  \/ AcqExists(1)
  \/ AcqRead(1)
  \/ AcqProbe(1)
  \/ AcqOpen(1)
  \/ AcqWrite(1)
  \/ \E i \in Inst : Close(1, i)
  \/ CpiList(1)
  \/ CpiVer(1)
  \/ CpiBase(1)
  \/ CpiDbs(1)
  \/ MvRename(1)
  \/ MvMkdir(1)
  \/ EngineStart(1)
  \/ InitdbStep(1)

SpecSeq == Init /\ [][NextSeq]_vars

\* ------------------------------------------- a marker of unparsable content
\* Process 1 opens a directory whose marker path holds something other than
\* a lock record: nothing, text that is no number, a zero, a negative number.
CorruptMarkers ==
  { <<>>, <<NL>>, <<"a", "b", "c", NL>>, <<"0", NL, "0", NL>>,
    <<"-", "1", NL, "0", NL>>, <<"-", "2", NL, "0", NL>> }

InitC ==
  /\ now = 0
  /\ alive = [p \in Procs |-> FALSE]
  /\ pidOf = [p \in Procs |-> 0]
  /\ pc = [p \in Procs |-> "unborn"]
  /\ cur = [p \in Procs |-> 0]
  /\ rd = [p \in Procs |-> <<>>]
  /\ inst = FreshInst
  /\ \E t \in CorruptMarkers : marker = File(t)
  /\ dir = Missing
  /\ backups = [t \in Times |-> Missing]
  /\ obs = [p \in Procs |-> "none"]
  /\ overlap = FALSE
  /\ dir0 = Missing
  /\ runs = 0
  /\ InitH0

SpecC == InitC /\ [][NextSeq]_vars

\* the shapes of a directory handed to the detector
DirShapes ==
  {d \in [exists : {TRUE}, listable : BOOLEAN, ver : BOOLEAN, other : BOOLEAN,
          base : -1..MaxBase, done : BOOLEAN] :
     d.done => (d.ver /\ d.other /\ d.base >= InitdbDatabases)}

\* ------------------------------------------------- a pid handed out again
\* The owner of the marker is dead, having left the directory in any shape,
\* and the system has given its pid to process 2, which never opens the
\* directory. Process 1 opens it.
LeftBehind ==
  {d \in DirShapes : d.listable /\ d.other = d.ver /\ d.base \in {0 - 1, InitdbDatabases}}

InitR ==
  /\ now = 0
  /\ alive = [p \in Procs |-> p \in {1, 2}]
  /\ \E k \in Pids : \E j \in Pids \ {k} :
       /\ pidOf = [p \in Procs |-> IF p = 1 THEN j ELSE IF p = 2 THEN k ELSE 0]
       /\ marker = File(LockText(k, 0))
  /\ pc = [p \in Procs |-> IF p \in {1, 2} THEN "idle" ELSE "unborn"]
  /\ cur = [p \in Procs |-> 0]
  /\ rd = [p \in Procs |-> <<>>]
  /\ inst = FreshInst
  /\ dir \in LeftBehind
  /\ backups = [t \in Times |-> Missing]
  /\ obs = [p \in Procs |-> "none"]
  /\ overlap = FALSE
  /\ dir0 = dir
  /\ runs = 0
  /\ InitH0

\* process 1 as in a kill cycle; process 2 only lives and exits
NextR == NextSeq \/ Kill(2)

SpecR == InitR /\ [][NextR]_vars

\* ------------------------------------------------ the detector on its own
\* Process 1 holds the lock and runs #cleanPartialInit on a directory of any
\* shape, several times in a row.
InitQ ==
  /\ now = 0
  /\ alive = [p \in Procs |-> p = 1]
  /\ pidOf = [p \in Procs |-> IF p = 1 THEN 1 ELSE 0]
  /\ pc = [p \in Procs |-> IF p = 1 THEN "cpi_list" ELSE "unborn"]
  /\ cur = [p \in Procs |-> IF p = 1 THEN 1 ELSE 0]
  /\ rd = [p \in Procs |-> <<>>]
  /\ inst = [FreshInst EXCEPT ![1][1] = [st |-> "opening", fd |-> "open", err |-> 0]]
  /\ marker = File(LockText(1, 0))
  /\ dir \in DirShapes
  /\ dir0 = dir
  /\ backups = [t \in Times |-> Missing]
  /\ obs = [p \in Procs |-> IF p = 1 THEN "absent" ELSE "none"]
  /\ overlap = FALSE
  /\ runs = 0
  /\ InitH0

\* the run has returned; #cleanPartialInit is called again
Recheck(p) ==
  /\ alive[p] /\ pc[p] = "eng_start"
  /\ runs < MaxRuns
  /\ runs' = runs + 1
  /\ dir0' = dir
  /\ pc' = [pc EXCEPT ![p] = "cpi_list"]
  /\ UNCHANGED <<now, alive, pidOf, cur, rd, inst, marker, dir, backups, obs>>
  /\ Track
  /\ UNCHANGED hVars

NextQ ==
  \/ Tick
  \/ CpiList(1)
  \/ CpiVer(1)
  \/ CpiBase(1)
  \/ CpiDbs(1)
  \/ MvRename(1)
  \/ MvMkdir(1)
  \/ Recheck(1)

SpecQ == InitQ /\ [][NextQ]_vars

\* ------------------------------------------------- the harness: crashTest
MaxMsgs == 2       \* messages a worker sends in one run
MaxChunks == 1     \* chunks a worker writes to its stdout in one run

Msgs == {"ready", "other"}
Signals == {"SIGKILL", "SIGTERM", "SIGSTOP"}
DefaultKillAfterMs == 500
SafetyMs == 30000

\* what the signal does to a node worker that installs no handler
Terminates(sig) == sig \in {"SIGKILL", "SIGTERM"}
Stops(sig) == sig = "SIGSTOP"

\* the options a caller may pass: a trigger message or none, a kill delay
\* shorter or longer than the safety timeout, any signal
HOptions ==
  [killOnMessage : {"null", "ready"},
   killAfterMs : {DefaultKillAfterMs, SafetyMs + DefaultKillAfterMs},
   signal : Signals]

\* if (!killOnMessage) killTimer = setTimeout(...)
ArmsKillTimer_always(opt) == TRUE
ArmsKillTimer(opt) == opt.killOnMessage = "null"

\* what fork() may do: start the worker, fail with an 'error' event on the
\* next tick (no process, no 'exit' event), or throw
SpawnOutcomes == {"ok", "error", "throws"}
SpawnError == "spawn EAGAIN"

\* the state when the promise executor returns or throws: with a worker,
\* handlers registered and timers set; without one, the same with the
\* 'error' event on its way; or the promise rejected by the throw
InitHarness ==
  /\ hOpt \in HOptions
  /\ hClock = 0
  /\ chan = <<>>
  /\ messages = <<>>
  /\ killed = FALSE
  /\ sigs = <<>>
  /\ exitEv = NoExit
  /\ workerError = "null"
  /\ pipe = 0
  /\ stdout = 0
  /\ InitOpen0 /\ InitVer0 /\ InitScn0 /\ InitRel0 /\ InitTx0
  /\ \E o \in SpawnOutcomes :
       /\ child = IF o = "ok" THEN "running" ELSE "gone"
       /\ errEv = IF o = "error" THEN "queued" ELSE "none"
       /\ killTimer = IF o # "throws" /\ ArmsKillTimer(hOpt) THEN "armed" ELSE "unset"
       /\ safety = IF o # "throws" THEN "armed" ELSE "unset"
       /\ result = IF o = "throws"
                     THEN [Pending EXCEPT !.st = "rejected", !.workerError = SpawnError]
                     ELSE Pending

\* child.kill(sig) at call site `by`: a signal is sent while the child has a
\* process handle (no 'exit' and no 'error' event emitted yet); it reaches a
\* worker only if the worker still runs
ChildKill(sig, by) ==
  sigs' = IF exitEv.st # "handled" /\ errEv = "none"
            THEN Append(sigs, [sig |-> sig, by |-> by, live |-> child # "gone"])
            ELSE sigs

ClearKillTimer == killTimer' = IF killTimer = "armed" THEN "cleared" ELSE killTimer

\* killOnMessage && msg === killOnMessage
KillOnMessageMatch_any(msg) == hOpt.killOnMessage # "null"
KillOnMessageMatch(msg) == hOpt.killOnMessage # "null" /\ msg = hOpt.killOnMessage

\* `!killed`
NotKilled_always == TRUE
NotKilled == ~killed

\* messages.push(msg)
PushMessage_front(ms, msg) == <<msg>> \o ms
PushMessage(ms, msg) == Append(ms, msg)

\* workerMessages: messages -- the result refers to the array `messages`
\* itself, not to a copy of it
WorkerMessages(r) == messages

\* the worker: process.send(m)
WorkerSend(m) ==
  /\ child = "running"
  /\ Len(chan) + Len(messages) < MaxMsgs
  /\ chan' = Append(chan, m)
  /\ UNCHANGED <<hOpt, hClock, child, messages, killed, killTimer, safety, sigs, exitEv, result>>
  /\ UNCHANGED <<workerError, errEv, pipe, stdout>>
  /\ UNCHANGED <<lockVars, toolVars, relVars, txVars>>

\* the worker exits on its own
WorkerExit(code) ==
  /\ child = "running"
  /\ child' = "gone"
  /\ exitEv' = [st |-> "queued", code |-> code, sig |-> "null"]
  /\ UNCHANGED <<hOpt, hClock, chan, messages, killed, killTimer, safety, sigs, result>>
  /\ UNCHANGED <<workerError, errEv, pipe, stdout>>
  /\ UNCHANGED <<lockVars, toolVars, relVars, txVars>>

\* a terminating signal that reached the worker ends it
DieOfSignal ==
  /\ \E k \in DOMAIN sigs :
       /\ sigs[k].live /\ Terminates(sigs[k].sig)
       /\ child = "running" \/ (child = "stopped" /\ sigs[k].sig = "SIGKILL")
       /\ exitEv' = [st |-> "queued", code |-> "null", sig |-> sigs[k].sig]
  /\ child' = "gone"
  /\ UNCHANGED <<hOpt, hClock, chan, messages, killed, killTimer, safety, sigs, result>>
  /\ UNCHANGED <<workerError, errEv, pipe, stdout>>
  /\ UNCHANGED <<lockVars, toolVars, relVars, txVars>>

\* a stop signal that reached the worker suspends it
StopOfSignal ==
  /\ child = "running"
  /\ \E k \in DOMAIN sigs : sigs[k].live /\ Stops(sigs[k].sig)
  /\ child' = "stopped"
  /\ UNCHANGED <<hOpt, hClock, chan, messages, killed, killTimer, safety, sigs, exitEv, result>>
  /\ UNCHANGED <<workerError, errEv, pipe, stdout>>
  /\ UNCHANGED <<lockVars, toolVars, relVars, txVars>>

\* child.on('message', ...)
OnMessage ==
  /\ chan # <<>>
  /\ chan' = Tail(chan)
  /\ messages' = PushMessage(messages, Head(chan))
  /\ IF KillOnMessageMatch(Head(chan)) /\ NotKilled
       THEN /\ killed' = TRUE
            /\ ClearKillTimer
            /\ ChildKill(hOpt.signal, "message")
       ELSE UNCHANGED <<killed, killTimer, sigs>>
  /\ UNCHANGED <<hOpt, hClock, child, safety, exitEv, result>>
  /\ UNCHANGED <<workerError, errEv, pipe, stdout>>
  /\ UNCHANGED <<lockVars, toolVars, relVars, txVars>>

\* child.on('exit', (code, sig) => ...)
OnExit ==
  /\ exitEv.st = "queued"
  /\ exitEv' = [exitEv EXCEPT !.st = "handled"]
  /\ ClearKillTimer
  /\ result' = [st |-> "resolved",
                workerKilled |-> (exitEv.sig = hOpt.signal \/ killed),
                workerError |-> workerError,
                workerExitCode |-> exitEv.code,
                workerSignal |-> exitEv.sig,
                stdout |-> stdout]
  /\ UNCHANGED <<hOpt, hClock, child, chan, messages, killed, safety, sigs>>
  /\ UNCHANGED <<workerError, errEv, pipe, stdout>>
  /\ UNCHANGED <<lockVars, toolVars, relVars, txVars>>

\* child.on('error', (err) => { workerError = err.message })
OnError ==
  /\ errEv = "queued"
  /\ errEv' = "handled"
  /\ workerError' = SpawnError
  /\ UNCHANGED <<hOpt, hClock, child, chan, messages, killed, killTimer, safety, sigs, exitEv, result>>
  /\ UNCHANGED <<pipe, stdout>>
  /\ UNCHANGED <<lockVars, toolVars, relVars, txVars>>

\* the worker writes a chunk to its stdout
WorkerWrite ==
  /\ child = "running"
  /\ pipe + stdout < MaxChunks
  /\ pipe' = pipe + 1
  /\ UNCHANGED <<hOpt, hClock, child, chan, messages, killed, killTimer, safety, sigs, exitEv, result>>
  /\ UNCHANGED <<workerError, errEv, stdout>>
  /\ UNCHANGED <<lockVars, toolVars, relVars, txVars>>

\* child.stdout.on('data', (d) => { stdout += d.toString() })
OnData ==
  /\ pipe > 0
  /\ pipe' = pipe - 1
  /\ stdout' = stdout + 1
  /\ UNCHANGED <<hOpt, hClock, child, chan, messages, killed, killTimer, safety, sigs, exitEv, result>>
  /\ UNCHANGED <<workerError, errEv>>
  /\ UNCHANGED <<lockVars, toolVars, relVars, txVars>>

\* the kill timer's callback, killAfterMs after it was set
KillTimerFires ==
  /\ killTimer = "armed"
  /\ hClock >= hOpt.killAfterMs
  /\ killTimer' = "fired"
  /\ IF NotKilled
       THEN killed' = TRUE /\ ChildKill(hOpt.signal, "timer")
       ELSE UNCHANGED <<killed, sigs>>
  /\ UNCHANGED <<hOpt, hClock, child, chan, messages, safety, exitEv, result>>
  /\ UNCHANGED <<workerError, errEv, pipe, stdout>>
  /\ UNCHANGED <<lockVars, toolVars, relVars, txVars>>

\* the safety timeout's callback, 30 s after it was set
SafetyFires ==
  /\ safety = "armed"
  /\ hClock >= SafetyMs
  /\ safety' = "fired"
  /\ IF NotKilled
       THEN killed' = TRUE /\ ChildKill("SIGKILL", "safety")
       ELSE UNCHANGED <<killed, sigs>>
  /\ UNCHANGED <<hOpt, hClock, child, chan, messages, killTimer, exitEv, result>>
  /\ UNCHANGED <<workerError, errEv, pipe, stdout>>
  /\ UNCHANGED <<lockVars, toolVars, relVars, txVars>>

\* the deadlines of the timers still set
ArmedDeadlines ==
  (IF killTimer = "armed" THEN {hOpt.killAfterMs} ELSE {})
    \cup (IF safety = "armed" THEN {SafetyMs} ELSE {})

\* time passes up to the next deadline; a timer that is due runs first
Advance ==
  /\ ArmedDeadlines # {}
  /\ \A d \in ArmedDeadlines : d > hClock
  /\ hClock' = CHOOSE d \in ArmedDeadlines : \A e \in ArmedDeadlines : d <= e
  /\ UNCHANGED <<hOpt, child, chan, messages, killed, killTimer, safety, sigs, exitEv, result>>
  /\ UNCHANGED <<workerError, errEv, pipe, stdout>>
  /\ UNCHANGED <<lockVars, toolVars, relVars, txVars>>

NextH ==
  \/ \E m \in Msgs : WorkerSend(m)
  \/ \E code \in {"0", "1"} : WorkerExit(code)
  \/ DieOfSignal
  \/ StopOfSignal
  \/ OnMessage
  \/ OnExit
  \/ OnError
  \/ WorkerWrite
  \/ OnData
  \/ KillTimerFires
  \/ SafetyFires
  \/ Advance

InitH == InitLock /\ InitHarness

SpecH == InitH /\ [][NextH]_vars

\* the event loop runs every callback that is due, time passes, and the
\* operating system acts on every signal it has delivered
FairH ==
  /\ WF_vars(OnMessage) /\ WF_vars(OnExit) /\ WF_vars(OnError) /\ WF_vars(OnData)
  /\ WF_vars(KillTimerFires) /\ WF_vars(SafetyFires) /\ WF_vars(Advance)
  /\ WF_vars(DieOfSignal) /\ WF_vars(StopOfSignal)

FairSpecH == InitH /\ [][NextH]_vars /\ FairH

\* --------------------------------------------------- the harness: tryOpen
\* the race is on: `new PGlite(dataDir)` has returned, waitReady is pending
Racing(i) == [st |-> "racing", success |-> FALSE, db |-> i, error |-> "null"]

\* return { success: true, db, error: null }
OpenResult(i) == [st |-> "returned", success |-> TRUE, db |-> i, error |-> "null"]

\* catch (err) { return { success: false, db: null, error: err } }
CatchResult_keepDb(err) == [st |-> "returned", success |-> FALSE, db |-> tInst, error |-> err]
CatchResult(err) == [st |-> "returned", success |-> FALSE, db |-> 0, error |-> err]

\* the error waitReady rejects with, by the state the instance settled in
OpenError(st) ==
  CASE st = "failed" -> "locked"
    [] st = "ctorfail" -> "mkdir"
    [] OTHER -> "engine"

TimeoutError == "timed out"

\* tryOpen(dataDir): new PGlite(dataDir), then the race of db.waitReady
\* against the timer
TryOpenCall(i) ==
  /\ tRes.st \in {"idle", "returned"}
  /\ NewPGlite(1, i)
  /\ tInst' = i
  /\ tTimer' = "armed"
  /\ tRes' = Racing(i)
  /\ UNCHANGED <<crashVars, verVars, scnVars, relVars, txVars>>

\* the timer's callback rejects; a race that is already settled ignores it
TryTimeout ==
  /\ tTimer = "armed"
  /\ tTimer' = "fired"
  /\ tRes' = IF tRes.st = "racing" THEN CatchResult(TimeoutError) ELSE tRes
  /\ UNCHANGED <<tInst, lockVars, crashVars, verVars, scnVars, relVars, txVars>>

\* db.waitReady resolves first
TryReady ==
  /\ tRes.st = "racing"
  /\ inst[1][tInst].st = "ready"
  /\ tRes' = OpenResult(tInst)
  /\ UNCHANGED <<tInst, tTimer, lockVars, crashVars, verVars, scnVars, relVars, txVars>>

\* db.waitReady rejects first; an engine that cannot start may also hang
TryRejected ==
  /\ tRes.st = "racing"
  /\ inst[1][tInst].st \in {"failed", "ctorfail", "broken"}
  /\ tRes' = CatchResult(OpenError(inst[1][tInst].st))
  /\ UNCHANGED <<tInst, tTimer, lockVars, crashVars, verVars, scnVars, relVars, txVars>>

\* The coordinator (process 1) calls tryOpen on what a worker (process 2)
\* left behind or still holds.
InitT ==
  /\ now = 0
  /\ \E b \in BOOLEAN :
       /\ alive = [p \in Procs |-> p = 1 \/ (p = 2 /\ b)]
       /\ pc = [p \in Procs |-> IF alive[p] THEN "idle" ELSE IF p = 2 THEN "dead" ELSE "unborn"]
       /\ inst = IF b THEN [FreshInst EXCEPT ![2][1] = [st |-> "ready", fd |-> "open", err |-> 0]]
                      ELSE FreshInst
       /\ marker \in IF b THEN {File(LockText(2, 0))}
                          ELSE {NoFile, File(<<>>), File(LockText(2, 0))}
       /\ dir \in IF b THEN {d \in DirShapes : d.listable /\ d.done}
                       ELSE DirShapes \cup {Missing}
  /\ pidOf = [p \in Procs |-> IF p <= 2 THEN p ELSE 0]
  /\ cur = [p \in Procs |-> 0]
  /\ rd = [p \in Procs |-> <<>>]
  /\ backups = [t \in Times |-> Missing]
  /\ obs = [p \in Procs |-> "none"]
  /\ overlap = FALSE
  /\ dir0 = dir
  /\ runs = 0
  /\ InitH0

NextT ==
  \/ Tick
  \/ Kill(2)
  \/ \E i \in Inst : TryOpenCall(i)
  \/ TryTimeout
  \/ TryReady
  \/ TryRejected
  \/ CtorExists(1)
  \/ CtorMkdir(1)
  \/ AcqExists(1)
  \/ AcqRead(1)
  \/ AcqProbe(1)
  \/ AcqOpen(1)
  \/ AcqWrite(1)
  \/ \E i \in Inst : Close(1, i)
  \/ CpiList(1)
  \/ CpiVer(1)
  \/ CpiBase(1)
  \/ CpiDbs(1)
  \/ MvRename(1)
  \/ MvMkdir(1)
  \/ EngineStart(1)
  \/ InitdbStep(1)

SpecT == InitT /\ [][NextT]_vars

\* ------------------------------------------- the harness: verifyIntegrity
MaxTables == 2     \* rows of the table listing
MaxIndexes == 2    \* rows of the index listing

\* `issues.length === 0`
Intact_always(issues) == TRUE
Intact(issues) == Len(issues) = 0

NoReport == [st |-> "none", intact |-> FALSE, issues |-> <<>>]
Report(intact, issues) == [st |-> "returned", intact |-> intact, issues |-> issues]

\* an entry of `issues`: the text of the message and the table or index it
\* names (0 when it names none)
Issue_unnamed(text, on) == [text |-> text, on |-> 0]
Issue(text, on) == [text |-> text, on |-> on]

\* the listings are ORDER BY tablename / ORDER BY indexname: tables and
\* indexes are numbered in the order of their names
Listing(n) == [i \in 1..n |-> i]

\* where a for loop over a listing goes after one row: the try/catch around
\* the row's query keeps a failure inside the iteration
AfterRow_breaks(ok, todo, loop, after) == IF ~ok \/ todo = 1 THEN after ELSE loop
AfterRow(ok, todo, loop, after) == IF todo = 1 THEN after ELSE loop

Check(kind, on, ok) == [kind |-> kind, on |-> on, ok |-> ok]

\* verifyIntegrity(db) is called: const issues = []
VerifyCall ==
  /\ vPc \in {"idle", "done"}
  /\ vPc' = "base"
  /\ vIssues' = <<>>
  /\ vLayers' = {}
  /\ vFailed' = FALSE
  /\ vRep' = NoReport
  /\ vN' = 0 /\ vM' = 0 /\ vTodo' = 0
  /\ vOwner' = <<>> /\ vChecks' = <<>>
  /\ UNCHANGED <<lockVars, crashVars, openVars, scnVars, relVars, txVars>>

\* await db.query('SELECT 1 as health_check'); a failure returns at once
VerifyBaseline(ok) ==
  /\ vPc = "base"
  /\ vLayers' = vLayers \cup {1}
  /\ vFailed' = (vFailed \/ ~ok)
  /\ IF ok
       THEN /\ vPc' = "tables"
            /\ UNCHANGED <<vIssues, vRep>>
       ELSE /\ vIssues' = Append(vIssues, Issue("Basic query failed", 0))
            /\ vRep' = Report(FALSE, vIssues')
            /\ vPc' = "done"
  /\ UNCHANGED <<vN, vM, vTodo, vOwner, vChecks>>
  /\ UNCHANGED <<lockVars, crashVars, openVars, scnVars, relVars, txVars>>

\* the listing of the user tables, n rows
VerifyTables(ok, n) ==
  /\ vPc = "tables"
  /\ vLayers' = vLayers \cup {2}
  /\ vFailed' = (vFailed \/ ~ok)
  /\ IF ok
       THEN /\ vN' = n /\ vTodo' = n
            /\ vPc' = IF n = 0 THEN "indexes" ELSE "count"
            /\ UNCHANGED vIssues
       ELSE /\ vIssues' = Append(vIssues, Issue("Table listing failed", 0))
            /\ vPc' = "indexes"
            /\ UNCHANGED <<vN, vTodo>>
  /\ UNCHANGED <<vM, vRep, vOwner, vChecks>>
  /\ UNCHANGED <<lockVars, crashVars, openVars, scnVars, relVars, txVars>>

\* SELECT count(*) on the next table of the listing
VerifyCount(ok) ==
  /\ vPc = "count"
  /\ vFailed' = (vFailed \/ ~ok)
  /\ LET t == Listing(vN)[vN - vTodo + 1] IN
       /\ vIssues' = IF ok THEN vIssues ELSE Append(vIssues, Issue("Count failed", t))
       /\ vChecks' = Append(vChecks, Check("table", t, ok))
  /\ vTodo' = vTodo - 1
  /\ vPc' = AfterRow(ok, vTodo, "count", "indexes")
  /\ UNCHANGED <<vLayers, vN, vM, vRep, vOwner>>
  /\ UNCHANGED <<lockVars, crashVars, openVars, scnVars, relVars, txVars>>

\* the listing of the indexes, m rows, each with the table it belongs to
VerifyIndexes(ok, m) ==
  /\ vPc = "indexes"
  /\ vLayers' = vLayers \cup {3}
  /\ vFailed' = (vFailed \/ ~ok)
  /\ IF ok
       THEN /\ vM' = m /\ vTodo' = m
            /\ \E own \in [1..m -> 1..MaxTables] : vOwner' = own
            /\ vPc' = IF m = 0 THEN "ret" ELSE "icheck"
            /\ UNCHANGED vIssues
       ELSE /\ vIssues' = Append(vIssues, Issue("Index listing failed", 0))
            /\ vPc' = "ret"
            /\ UNCHANGED <<vM, vTodo, vOwner>>
  /\ UNCHANGED <<vN, vRep, vChecks>>
  /\ UNCHANGED <<lockVars, crashVars, openVars, scnVars, relVars, txVars>>

\* SELECT count(*) on the table of the next index of the listing
VerifyIndexCheck(ok) ==
  /\ vPc = "icheck"
  /\ vFailed' = (vFailed \/ ~ok)
  /\ LET x == Listing(vM)[vM - vTodo + 1] IN
       /\ vIssues' = IF ok THEN vIssues ELSE Append(vIssues, Issue("Index check failed", x))
       /\ vChecks' = Append(vChecks, Check("index", x, ok))
  /\ vTodo' = vTodo - 1
  /\ vPc' = AfterRow(ok, vTodo, "icheck", "ret")
  /\ UNCHANGED <<vLayers, vN, vM, vRep, vOwner>>
  /\ UNCHANGED <<lockVars, crashVars, openVars, scnVars, relVars, txVars>>

\* return { intact: issues.length === 0, issues }
VerifyReturn ==
  /\ vPc = "ret"
  /\ vRep' = Report(Intact(vIssues), vIssues)
  /\ vPc' = "done"
  /\ UNCHANGED <<vIssues, vLayers, vFailed, vN, vM, vTodo, vOwner, vChecks>>
  /\ UNCHANGED <<lockVars, crashVars, openVars, scnVars, relVars, txVars>>

NextV ==
  \/ VerifyCall
  \/ \E ok \in BOOLEAN : VerifyBaseline(ok)
  \/ \E ok \in BOOLEAN : \E n \in 0..MaxTables : VerifyTables(ok, n)
  \/ \E ok \in BOOLEAN : VerifyCount(ok)
  \/ \E ok \in BOOLEAN : \E m \in 0..MaxIndexes : VerifyIndexes(ok, m)
  \/ \E ok \in BOOLEAN : VerifyIndexCheck(ok)
  \/ VerifyReturn

SpecV == Init /\ [][NextV]_vars

\* ---------------------- the recovery checks of kill-during-checkpoint.test
MaxMeta == 2       \* rows of ckpt_meta
MetaOutcomes == {"match", "mismatch", "error"}

\* the statements of Step 5, in order: BEGIN, the INSERTs, COMMIT, the DELETEs
ProbeBegin == 0
ProbeCommit == ProbeTables + 1
ProbeLast == 2 * ProbeTables + 1

\* corruptionDetails.push(...)
Push_first(label) ==
  corruptionDetails' = IF corruptionDetails = <<>> THEN <<label>> ELSE corruptionDetails
Push(label) == corruptionDetails' = Append(corruptionDetails, label)
Fails(check) == sFailed' = sFailed \cup {check}

\* Step 2: const opened = await tryOpen(dataDir, 30000)
ScOpen ==
  /\ sPc = "open" /\ tRes.st = "returned"
  /\ IF tRes.success
       THEN sPc' = "verify" /\ UNCHANGED <<corruptionDetails, sFailed>>
       ELSE sPc' = "done" /\ Push("Failed to reopen") /\ Fails("open")
  /\ UNCHANGED <<metaTodo, pStep, probeRows, rPc, recoveryRows>>
  /\ UNCHANGED <<lockVars, crashVars, openVars, verVars, relVars, txVars>>

\* Step 3: const integrity = await verifyIntegrity(opened.db)
ScVerify == sPc = "verify" /\ vPc = "idle" /\ VerifyCall

ScIntegrity ==
  /\ sPc = "verify" /\ vPc = "done" /\ vRep.st = "returned"
  /\ IF vRep.intact
       THEN sPc' = "tableCheck" /\ UNCHANGED <<corruptionDetails, sFailed>>
       ELSE sPc' = "close" /\ Push("Integrity check failed") /\ Fails("integrity")
  /\ UNCHANGED <<metaTodo, pStep, probeRows, rPc, recoveryRows>>
  /\ UNCHANGED <<lockVars, crashVars, openVars, verVars, relVars, txVars>>

\* Step 4: does ckpt_meta exist; the query stands outside every try ... catch
ScTableCheck(ok, exists) ==
  /\ sPc = "tableCheck"
  /\ IF ok
       THEN sPc' = (IF exists THEN "metaRows" ELSE "dataTables") /\ UNCHANGED sFailed
       ELSE sPc' = "closeThrow" /\ Fails("listing")
  /\ UNCHANGED <<corruptionDetails, metaTodo, pStep, probeRows, rPc, recoveryRows>>
  /\ UNCHANGED <<lockVars, crashVars, openVars, verVars, relVars, txVars>>

\* the rows of ckpt_meta; also outside every try ... catch
ScMetaRows(ok, n) ==
  /\ sPc = "metaRows"
  /\ IF ok
       THEN /\ metaTodo' = n
            /\ sPc' = (IF n = 0 THEN "dataTables" ELSE "meta")
            /\ UNCHANGED sFailed
       ELSE sPc' = "closeThrow" /\ Fails("listing") /\ UNCHANGED metaTodo
  /\ UNCHANGED <<corruptionDetails, pStep, probeRows, rPc, recoveryRows>>
  /\ UNCHANGED <<lockVars, crashVars, openVars, verVars, relVars, txVars>>

\* one row of ckpt_meta against the count of its table
ScMeta(o) ==
  /\ sPc = "meta"
  /\ CASE o = "match" -> UNCHANGED <<corruptionDetails, sFailed>>
       [] o = "mismatch" -> Push("DATA INCONSISTENCY") /\ Fails("count")
       [] o = "error" -> Push("QUERY ERROR") /\ Fails("query")
  /\ metaTodo' = metaTodo - 1
  /\ sPc' = (IF metaTodo = 1 THEN "dataTables" ELSE "meta")
  /\ UNCHANGED <<pStep, probeRows, rPc, recoveryRows>>
  /\ UNCHANGED <<lockVars, crashVars, openVars, verVars, relVars, txVars>>

\* do the ckpt_t tables exist; outside every try ... catch
ScDataTableCheck(ok, exists) ==
  /\ sPc = "dataTables"
  /\ IF ok
       THEN sPc' = (IF exists THEN "probe" ELSE "close") /\ UNCHANGED sFailed
       ELSE sPc' = "closeThrow" /\ Fails("listing")
  /\ pStep' = ProbeBegin
  /\ UNCHANGED <<corruptionDetails, metaTodo, probeRows, rPc, recoveryRows>>
  /\ UNCHANGED <<lockVars, crashVars, openVars, verVars, relVars, txVars>>

\* the rows of cycle 9999 after statement `step` of Step 5 has succeeded
AfterProbe(step, rows) ==
  IF step = ProbeCommit THEN [t \in Tables |-> 1]
  ELSE IF step > ProbeCommit THEN [rows EXCEPT ![step - ProbeCommit] = 0]
  ELSE rows

\* Step 5: the next statement of the post-recovery write; the first that
\* fails ends the step in its catch
ScProbe(ok) ==
  /\ sPc = "probe"
  /\ IF ok
       THEN /\ probeRows' = AfterProbe(pStep, probeRows)
            /\ pStep' = pStep + 1
            /\ sPc' = (IF pStep = ProbeLast THEN "index" ELSE "probe")
            /\ UNCHANGED <<corruptionDetails, sFailed>>
       ELSE /\ Push("WRITE AFTER RECOVERY FAILED") /\ Fails("write")
            /\ sPc' = "index"
            /\ UNCHANGED <<probeRows, pStep>>
  /\ UNCHANGED <<metaTodo, rPc, recoveryRows>>
  /\ UNCHANGED <<lockVars, crashVars, openVars, verVars, relVars, txVars>>

\* Step 6: the index queries, in one try
ScIndex(ok) ==
  /\ sPc = "index"
  /\ IF ok THEN UNCHANGED <<corruptionDetails, sFailed>>
           ELSE Push("INDEX CORRUPTION") /\ Fails("index")
  /\ sPc' = "scan"
  /\ UNCHANGED <<metaTodo, pStep, probeRows, rPc, recoveryRows>>
  /\ UNCHANGED <<lockVars, crashVars, openVars, verVars, relVars, txVars>>

\* Step 7: the sequential scans, in one try
ScScan(ok) ==
  /\ sPc = "scan"
  /\ IF ok THEN UNCHANGED <<corruptionDetails, sFailed>>
           ELSE Push("SCAN CORRUPTION") /\ Fails("scan")
  /\ sPc' = "close"
  /\ UNCHANGED <<metaTodo, pStep, probeRows, rPc, recoveryRows>>
  /\ UNCHANGED <<lockVars, crashVars, openVars, verVars, relVars, txVars>>

\* finally { await opened.db.close() }; an exception on its way out leaves
\* the test without reaching the verdict
ScClose ==
  /\ sPc \in {"close", "closeThrow"}
  /\ sPc' = (IF sPc = "close" THEN "done" ELSE "threw")
  /\ UNCHANGED <<corruptionDetails, sFailed, metaTodo, pStep, probeRows, rPc, recoveryRows>>
  /\ UNCHANGED <<lockVars, crashVars, openVars, verVars, relVars, txVars>>

\* ------------------------- the post-recovery write of the WAL recovery test
\* INSERT INTO recovery_test (value) VALUES ('post-recovery-write')
RecWrite(ok) ==
  /\ rPc = "write"
  /\ IF ok THEN recoveryRows' = recoveryRows + 1 /\ rPc' = "count"
           ELSE rPc' = "threw" /\ UNCHANGED recoveryRows
  /\ UNCHANGED <<sPc, corruptionDetails, sFailed, metaTodo, pStep, probeRows>>
  /\ UNCHANGED <<lockVars, crashVars, openVars, verVars, relVars, txVars>>

\* the count after the insert
RecCount(ok) ==
  /\ rPc = "count"
  /\ rPc' = (IF ok THEN "close" ELSE "threw")
  /\ UNCHANGED <<sPc, corruptionDetails, sFailed, metaTodo, pStep, probeRows, recoveryRows>>
  /\ UNCHANGED <<lockVars, crashVars, openVars, verVars, relVars, txVars>>

\* await opened.db.close()
RecClose ==
  /\ rPc = "close"
  /\ rPc' = "done"
  /\ UNCHANGED <<sPc, corruptionDetails, sFailed, metaTodo, pStep, probeRows, recoveryRows>>
  /\ UNCHANGED <<lockVars, crashVars, openVars, verVars, relVars, txVars>>

\* the recovery checks start from what tryOpen returned
InitS ==
  /\ InitLock
  /\ InitCrash0 /\ InitVer0 /\ InitRel0 /\ InitTx0
  /\ tInst = 1 /\ tTimer \in {"armed", "fired"}
  /\ tRes \in IF tTimer = "fired" THEN {CatchResult(TimeoutError)}
              ELSE {OpenResult(tInst), CatchResult("engine"), CatchResult("locked")}
  /\ sPc = "open" /\ corruptionDetails = <<>> /\ sFailed = {}
  /\ metaTodo = 0 /\ pStep = 0
  /\ probeRows = [t \in Tables |-> 0]
  /\ rPc = (IF tRes.success THEN "write" ELSE "done")
  /\ recoveryRows = 0

NextS ==
  \/ ScOpen
  \/ ScVerify
  \/ \E ok \in BOOLEAN : VerifyBaseline(ok)
  \/ \E ok \in BOOLEAN : \E n \in 0..MaxTables : VerifyTables(ok, n)
  \/ \E ok \in BOOLEAN : VerifyCount(ok)
  \/ \E ok \in BOOLEAN : \E m \in 0..MaxIndexes : VerifyIndexes(ok, m)
  \/ \E ok \in BOOLEAN : VerifyIndexCheck(ok)
  \/ VerifyReturn
  \/ ScIntegrity
  \/ \E ok, e \in BOOLEAN : ScTableCheck(ok, e)
  \/ \E ok \in BOOLEAN : \E n \in 0..MaxMeta : ScMetaRows(ok, n)
  \/ \E o \in MetaOutcomes : ScMeta(o)
  \/ \E ok, e \in BOOLEAN : ScDataTableCheck(ok, e)
  \/ \E ok \in BOOLEAN : ScProbe(ok)
  \/ \E ok \in BOOLEAN : ScIndex(ok)
  \/ \E ok \in BOOLEAN : ScScan(ok)
  \/ ScClose
  \/ \E ok \in BOOLEAN : RecWrite(ok)
  \/ \E ok \in BOOLEAN : RecCount(ok)
  \/ RecClose

SpecS == InitS /\ [][NextS]_vars

\* ------------------------------- the worker of kill-during-transaction.js
BaselineRows == 3  \* rows inserted and committed before BEGIN
MaxTxnOps == 3     \* statements between BEGIN and process.send

TxnOps == {"insert", "update", "delete"}
Stmt(op, n) == [op |-> op, n |-> n]

\* INSERT INTO items (name, value) VALUES ('baseline-i', i * 10), one per row
BaselineInserts == [i \in 1..BaselineRows |-> Stmt("baseline", i)]

\* the statements between BEGIN and process.send('in-transaction')
TxnBodies ==
  UNION {[1..k -> TxnOps] : k \in 0..MaxTxnOps}
Body(b) == [i \in 1..Len(b) |-> Stmt(b[i], i)]

\* run(): the baseline, BEGIN, the transaction's statements, the message,
\* a filler insert, COMMIT
Script(b) ==
  BaselineInserts \o <<Stmt("begin", 0)>> \o Body(b)
    \o <<Stmt("send", 0), Stmt("insert", MaxTxnOps + 1), Stmt("commit", 0)>>

\* what a statement of the worker makes of the rows of `items`
Exec(st, rows) ==
  CASE st.op = "baseline" -> rows \cup {[kind |-> "baseline", n |-> st.n, value |-> st.n * 10]}
    [] st.op = "insert" -> rows \cup {[kind |-> "txn", n |-> st.n, value |-> st.n * 100]}
    [] st.op = "update" ->
         {IF r.kind = "baseline" THEN [r EXCEPT !.value = @ + 9999] ELSE r : r \in rows}
    [] st.op = "delete" -> {r \in rows : ~(r.kind = "baseline" /\ r.n \in {1, 2})}
    [] OTHER -> rows

\* the rows the engine's recovery restores after a crash: the committed ones
Recover_keepsSession(committed, session) == session
Recover(committed, session) == committed

\* the worker runs its next statement; outside a transaction it is committed
\* on its own
TxStep ==
  /\ xState = "running" /\ xPc <= Len(xScript)
  /\ LET st == xScript[xPc] IN
       CASE st.op = "begin" ->
              inTxn' = TRUE /\ snap' = disk /\ UNCHANGED <<disk, view>>
         [] st.op = "commit" ->
              inTxn' = FALSE /\ disk' = view /\ UNCHANGED <<view, snap>>
         [] OTHER ->
              /\ view' = Exec(st, view)
              /\ disk' = IF inTxn THEN disk ELSE Exec(st, disk)
              /\ UNCHANGED <<inTxn, snap>>
  /\ xPc' = xPc + 1
  /\ UNCHANGED <<xState, xScript, lost, seen>>
  /\ UNCHANGED <<lockVars, crashVars, toolVars, relVars>>

\* SIGKILL reaches the worker: the session is gone
TxKill ==
  /\ xState = "running"
  /\ xState' = "killed"
  /\ lost' = view
  /\ UNCHANGED <<xScript, xPc, disk, view, inTxn, snap, seen>>
  /\ UNCHANGED <<lockVars, crashVars, toolVars, relVars>>

\* the test opens the directory again and reads `items`
TxReopen ==
  /\ xState = "killed"
  /\ xState' = "reopened"
  /\ seen' = Recover(disk, lost)
  /\ UNCHANGED <<xScript, xPc, disk, view, inTxn, snap, lost>>
  /\ UNCHANGED <<lockVars, crashVars, toolVars, relVars>>

InitX ==
  /\ InitLock
  /\ InitCrash0 /\ InitOpen0 /\ InitVer0 /\ InitScn0 /\ InitRel0
  /\ xState = "running" /\ xPc = 1
  /\ \E b \in TxnBodies : xScript = Script(b)
  /\ disk = {} /\ view = {} /\ inTxn = FALSE /\ snap = {} /\ lost = {} /\ seen = {}

NextX == TxStep \/ TxKill \/ TxReopen

SpecX == InitX /\ [][NextX]_vars





\* ------------------------------------------------------------------ claims
\* the lock handles outstanding: instances of live processes that acquired
\* and have not released
Handles == {h \in Procs \X Inst : Holder(h[1], h[2])}

\* the marker text names pid x: it is what an acquire by x writes
Names(text, x) == \E t \in Times : text = LockText(x, t)

NoLiveHolderSeen == {"absent", "stale", "corrupt"}

PastAcquire(p) == alive[p] /\ (inst[p][1].fd = "open" \/ inst[p][1].st = "failed")

\* C2: of two live workers that have both been through acquire (and closed
\* nothing), exactly one holds the directory and the other was refused with
\* the lock error naming the holder's pid, so it never reached a write to the
\* directory.
C2_ExactlyOneAcquires ==
  \A p, q \in Procs :
    (p # q /\ PastAcquire(p) /\ PastAcquire(q)) =>
      \/ inst[p][1].fd = "open" /\ inst[q][1].st = "failed" /\ inst[q][1].err = pidOf[p]
      \/ inst[q][1].fd = "open" /\ inst[p][1].st = "failed" /\ inst[p][1].err = pidOf[q]

C5_NoLockErrorInKillCycles == \A p \in Procs : inst[p][1].st # "failed"

\* C5 amended: in kill cycles an acquire fails with the lock error only when
\* the pid in the marker is the pid of a live process at the probe (the pid
\* of a dead worker was handed out again); otherwise it succeeds, and the
\* write leaves the marker naming the acquirer's pid and the current time.
C5_StaleLockReclaimed ==
  [][\A p \in Procs :
       /\ \A i \in Inst :
            (inst[p][i].st # "failed" /\ inst'[p][i].st = "failed")
              => LivePid(inst'[p][i].err)
       /\ (alive[p] /\ pc[p] = "acq_write" /\ alive'[p] /\ pc'[p] # "acq_write")
            => (marker' = File(LockText(pidOf[p], now)) /\ Holder(p, cur[p])')]_vars

\* C5 witness: a worker holds the lock after finding the marker of a dead
\* process, and the marker now names the worker.
C5_Witness ==
  \E p \in Procs :
    /\ Holder(p, 1) /\ obs[p] = "stale"
    /\ marker.exists /\ Names(marker.text, pidOf[p])

\* C6: in kill cycles on a fresh directory the engine is only ever started
\* on an empty directory or on a completely initialized one, and no open
\* that runs to completion ends with an engine that cannot start.
C6_KilledInitRecovers ==
  \A p \in Procs :
    /\ (alive[p] /\ pc[p] = "eng_start") => (dir.exists /\ (EntryCount(dir) = 0 \/ dir.done))
    /\ \A i \in Inst : inst[p][i].st # "broken"

\* the run of #cleanPartialInit has returned having quarantined the
\* directory it found: a backup holds that directory and the path names a
\* fresh empty one
RunReturned == alive[1] /\ pc[1] = "eng_start"
Quarantined == dir = EmptyDir /\ \E t \in Times : backups[t] = dir0

C8_ValidUntouched ==
  (dir0.ver /\ dir0.base >= 3) => (dir = dir0 /\ \A t \in Times : ~backups[t].exists)

\* C8 witness: the second run in a row has returned from a directory with
\* PG_VERSION and exactly three entries in base/, which is unchanged.
C8_Witness ==
  RunReturned /\ runs = MaxRuns /\ dir0.ver /\ dir0.base = 3 /\ dir = dir0

Arrived(m) == \E k \in DOMAIN messages : messages[k] = m
TriggerSet == hOpt.killOnMessage # "null"

C10_RunCompletes == (child = "running") => <>(result.st # "pending")

\* C11: whenever the safety timeout fires while the worker still exists, the
\* harness sends SIGKILL to it, whatever was sent before. Stated for the
\* workers that no terminating signal has reached yet, so that a worker an
\* earlier signal is about to end does not count.
C11_SafetyAlwaysKills ==
  [][(/\ safety = "armed" /\ safety' = "fired" /\ child # "gone"
      /\ \A k \in DOMAIN sigs : sigs[k].live => ~Terminates(sigs[k].sig))
       => (Len(sigs') = Len(sigs) + 1 /\ sigs'[Len(sigs')].sig = "SIGKILL")]_vars

C13_SpawnErrorPropagates ==
  /\ (errEv = "handled" \/ safety = "unset")
       => (result.st = "rejected" /\ result.workerError = SpawnError)
  /\ (errEv # "none" \/ safety = "unset") => result.st # "resolved"

\* the shape of what tryOpen returns
ResultShape(r) ==
  \/ r.success /\ r.db # 0 /\ r.error = "null"
  \/ ~r.success /\ r.db = 0 /\ r.error # "null"

\* C14: a tryOpen whose timer fires while the race is on returns failure
\* with no handle and the timeout error, which no failed open produces;
\* success is returned only while the timer has not fired and the open has
\* completed; and every result is (true, handle, null) or (false, null,
\* error).
C14_TryOpenResult ==
  [][/\ (tRes.st = "racing" /\ tTimer = "armed" /\ tTimer' = "fired")
          => tRes' = [st |-> "returned", success |-> FALSE, db |-> 0, error |-> TimeoutError]
     /\ (tRes.st = "racing" /\ tRes'.st = "returned" /\ tRes'.success)
          => (tTimer = "armed" /\ inst[1][tInst].st = "ready" /\ tRes'.db = tInst)
     /\ (tRes.st = "racing" /\ tRes'.st = "returned" /\ tTimer' = tTimer)
          => tRes'.error # TimeoutError
     /\ tRes'.st = "returned" => ResultShape(tRes')]_vars

\* C14 witness: the timer fired before the open completed and tryOpen
\* returned the timeout failure; the open it started went on and holds the
\* directory.
C14_Witness ==
  /\ tRes = [st |-> "returned", success |-> FALSE, db |-> 0, error |-> TimeoutError]
  /\ tTimer = "fired"
  /\ inst[1][tInst].st = "ready"

\* C15: every call of verifyIntegrity executes all three layers, and every
\* failed query leaves an issue in the report.
C15_AllLayersRun ==
  vRep.st = "returned" => (vLayers = {1, 2, 3} /\ (vFailed => vRep.issues # <<>>))

\* C16: verifyIntegrity returns intact = true iff the issues it returns are
\* empty, and when every query succeeded it returns intact = true with no
\* issue, whatever the numbers of tables and indexes.
C16_IntactIffNoIssues ==
  vRep.st = "returned" =>
    /\ vRep.intact <=> (vRep.issues = <<>>)
    /\ ~vFailed => (vRep.intact /\ vRep.issues = <<>>)

\* C16 witness: a call that listed the most tables and indexes, with every
\* query succeeding, returned intact = true.
C16_Witness ==
  /\ vRep.st = "returned" /\ ~vFailed
  /\ vN = MaxTables /\ vM = MaxIndexes
  /\ vRep.intact

\* the labels a finished run of the recovery checks reports
Verdict == {corruptionDetails[k] : k \in DOMAIN corruptionDetails}
Ended == sPc \in {"done", "threw"}

C18_VerificationLeavesData ==
  /\ []((Ended => \A t \in Tables : probeRows[t] = 0)
         /\ (rPc \in {"done", "threw"} => recoveryRows = 0))
  /\ [][(verVars' # verVars) => UNCHANGED <<probeRows, recoveryRows>>]_vars

\* C19: #releaseLock deletes the marker whenever the instance holds a
\* descriptor, also when the marker path is already absent; a second call on
\* the same instance changes neither the marker nor any instance; no call
\* raises.
C19_ReleaseIdempotent ==
  /\ [](\A p \in Procs, i \in Inst :
          /\ inst[p][i].st # "raised"
          /\ inst[p][i].st = "closed" => inst[p][i].fd = "null")
  /\ [][/\ \A p \in Procs, i \in Inst :
            (inst[p][i].st # "closed" /\ inst'[p][i].st = "closed")
              => (inst'[p][i].fd = "null" /\ (inst[p][i].fd # "null" => marker' = NoFile))
        /\ ("again" \in rel' \ rel) => UNCHANGED <<marker, inst>>]_vars

\* C19 witness: a release has met the marker already gone, and a release has
\* run on an instance released before; the marker is absent and every
\* released instance is without descriptor.
C19_Witness ==
  /\ rel = {"gone", "again"}
  /\ marker = NoFile
  /\ \E p \in Procs, i \in Inst : inst[p][i].st = "closed" /\ inst[p][i].fd = "null"

\* the marker content parses to no positive pid
Unparsable(text) == LET n == MarkerPid(text) IN n.nan \/ n.val <= 0

\* C20: #acquireLock treats a marker whose content is no positive pid as
\* stale: having read such a marker, it goes on to open and write the marker
\* and never leaves with the lock error.
C20_UnparsableIsStale ==
  [][\A p \in Procs :
       (/\ pc[p] \in {"acq_read", "acq_probe"} /\ pc'[p] # pc[p] /\ alive'[p]
        /\ IF pc[p] = "acq_read" THEN marker.exists /\ Unparsable(marker.text)
                                 ELSE Unparsable(rd[p]))
         => (/\ pc'[p] \in {"acq_probe", "acq_open"}
             /\ \A i \in Inst : inst'[p][i].st = "failed" => inst[p][i].st = "failed")]_vars

\* live process p has an instance that acquired the lock and has not released it
HoldsLock(p) ==
  alive[p] /\ pc[p] \notin AcqWindow /\ \E i \in Inst : inst[p][i].fd # "null"

\* C21: a marker that holds a lock record names the pid of a process that
\* holds the lock or the pid of a dead process, and every live process that
\* holds the lock finds the marker present and naming itself.
C21_MarkerNamesHolder ==
  /\ (marker.exists /\ ~Unparsable(marker.text)) =>
        \E q \in Procs : /\ pidOf[q] = MarkerPid(marker.text).val
                          /\ (HoldsLock(q) \/ pc[q] = "dead")
  /\ \A p \in Procs : HoldsLock(p) => (marker.exists /\ Names(marker.text, pidOf[p]))

\* C22: the transcript grows only by the message handler, which appends the
\* message it received at the end; the message that triggers the kill is the
\* last of the transcript when the signal is sent, and is in the transcript
\* the run returns.
C22_TranscriptInArrivalOrder ==
  [][/\ (messages' # messages) => (chan # <<>> /\ chan' = Tail(chan))
     /\ (chan # <<>> /\ chan' = Tail(chan)) => (messages' = Append(messages, Head(chan)))
     /\ (Len(sigs') > Len(sigs) /\ sigs'[Len(sigs')].by = "message")
          => (messages' # <<>> /\ messages'[Len(messages')] = hOpt.killOnMessage)
     /\ (result.st = "pending" /\ result'.st = "resolved"
          /\ \E k \in DOMAIN sigs : sigs[k].by = "message")
          => (\E k \in DOMAIN messages' : messages'[k] = hOpt.killOnMessage)]_vars

\* C22 witness: a run killed on its second message has returned, with both
\* messages in the transcript in the order they arrived.
C22_Witness ==
  /\ result.st = "resolved"
  /\ sigs # <<>> /\ sigs[1].by = "message"
  /\ Len(messages) = 2
  /\ messages[1] # hOpt.killOnMessage /\ messages[2] = hOpt.killOnMessage

\* C23: once the run has resolved, neither the returned result nor the
\* transcript it carries changes again.
C23_ResultImmutable ==
  [][(result.st = "resolved")
       => (result' = result /\ WorkerMessages(result')' = WorkerMessages(result))]_vars

\* C24: the run resolves once, in the step that handles the worker's exit
\* event and in every such step, with the event's code and signal, and with
\* workerKilled true exactly when the worker ended by a signal.
C24_ResolvesOnExit ==
  [][/\ (result' # result) =>
          /\ result.st = "pending" /\ result'.st = "resolved"
          /\ exitEv.st = "queued" /\ exitEv'.st = "handled"
          /\ result'.workerExitCode = exitEv.code
          /\ result'.workerSignal = exitEv.sig
          /\ result'.workerKilled = (exitEv.sig # "null")
     /\ (exitEv.st = "queued" /\ exitEv'.st = "handled") => (result'.st = "resolved")]_vars

\* C25: when the data directory cannot be listed, #cleanPartialInit returns
\* with the directory, the backups and the instance as they were, and init()
\* goes on to the engine, which fails on the directory.
C25_UnlistableDeferred ==
  [][\A p \in Procs :
       (alive'[p] /\ pc'[p] # pc[p] /\ (~dir.exists \/ ~dir.listable)) =>
         /\ (pc[p] = "cpi_list") => (pc'[p] = "eng_start" /\ UNCHANGED <<dir, backups, inst>>)
         /\ (pc[p] = "eng_start") => (inst'[p][cur[p]].st = "broken" /\ UNCHANGED <<dir, backups>>)]_vars

\* C25 witness: tryOpen has returned the engine's error for a directory that
\* exists and cannot be listed; the directory is as it was found and there is
\* no backup.
C25_Witness ==
  /\ tRes.st = "returned" /\ ~tRes.success /\ tRes.error = "engine"
  /\ dir.exists /\ ~dir.listable /\ EntryCount(dir) > 0 /\ dir = dir0
  /\ \A t \in Times : ~backups[t].exists

CpiChecks == {"cpi_list", "cpi_ver", "cpi_base", "cpi_dbs"}

C28_QuarantineComplete ==
  [][/\ \A p \in Procs :
          /\ (pc[p] = "mv_rename" /\ pc'[p] \in {"mv_mkdir", "eng_start"}) =>
                (pc'[p] = "mv_mkdir" /\ \E t \in Times : ~backups[t].exists /\ backups'[t] = dir)
          /\ (pc[p] = "mv_mkdir" /\ pc'[p] = "eng_start") => dir' = EmptyDir
     /\ \A t \in Times : backups[t].exists => backups'[t] = backups[t]]_vars

InCheck(p) == pc[p] \in CpiChecks \cup {"mv_rename", "mv_mkdir"}

\* C29: an open takes the lock, then runs the partial-init check, then
\* starts the engine; an open whose acquire fails changes neither the
\* directory nor the backups and never reaches the check or the engine.
C29_LockThenCheckThenEngine ==
  [][\A p \in Procs :
       /\ (alive'[p] /\ ~InCheck(p) /\ InCheck(p)') =>
             (pc[p] = "acq_write" /\ inst'[p][cur'[p]].fd = "open")
       /\ (alive'[p] /\ pc'[p] = "eng_start" /\ pc[p] # "eng_start") =>
             (InCheck(p) /\ inst[p][cur[p]].fd = "open")
       /\ \A i \in Inst :
             /\ (inst[p][i].st # "failed" /\ inst'[p][i].st = "failed") =>
                   (pc[p] \in AcqWindow /\ pc'[p] = "idle" /\ dir' = dir /\ backups' = backups)
             /\ (alive'[p] /\ inst[p][i].st = "failed") =>
                   inst'[p][i].st \in {"failed", "closed"}]_vars

\* C29 witness: one process came through lock and check into the engine's
\* initdb while another's open failed on the lock.
C29_Witness ==
  \E p, q \in Procs :
    /\ alive[p] /\ pc[p] = "initdb" /\ inst[p][cur[p]].fd = "open"
    /\ alive[q] /\ \E i \in Inst : inst[q][i].st = "failed" /\ inst[q][i].err = pidOf[p]

C31_NoKillTimerWithTrigger ==
  (hOpt.killOnMessage # "null") =>
    /\ killTimer = "unset"
    /\ \A k \in DOMAIN sigs : sigs[k].by \in {"message", "safety"}

\* C31 witness: a trigger was supplied and the delay has passed: no timer
\* was set, no signal was sent and the worker still runs.
C31_Witness ==
  /\ hOpt.killOnMessage # "null" /\ hClock >= hOpt.killAfterMs
  /\ killTimer = "unset" /\ child = "running" /\ sigs = <<>>
  /\ result.st = "pending" /\ safety = "armed"

\* the issues that name a table or an index, and the checks that failed
ItemIssues == SelectSeq(vIssues, LAMBDA i : i.on # 0)
FailedChecks == SelectSeq(vChecks, LAMBDA c : ~c.ok)
IssueFor(c) ==
  [text |-> IF c.kind = "table" THEN "Count failed" ELSE "Index check failed", on |-> c.on]
RowsChecked == [k \in DOMAIN vChecks |-> <<vChecks[k].kind, vChecks[k].on>>]

\* C32: every failed per-table or per-index check leaves exactly one issue
\* naming its table or index, in the order of the checks; a call that got
\* both listings has checked every table in name order and then every index
\* in name order, whichever of them failed.
C32_OneIssuePerFailedCheck ==
  /\ ItemIssues = [k \in DOMAIN FailedChecks |-> IssueFor(FailedChecks[k])]
  /\ (vRep.st = "returned" /\ vLayers = {1, 2, 3}) =>
        RowsChecked = [k \in 1..vN |-> <<"table", k>>] \o [k \in 1..vM |-> <<"index", k>>]

\* C32 witness: the count of the first table failed and the second was still
\* counted; both indexes belong to the first table, both checks failed, and
\* the report lists the table's issue and one issue for each index.
C32_Witness ==
  /\ vRep.st = "returned" /\ vN = 2 /\ vM = 2
  /\ vOwner = <<1, 1>>
  /\ vChecks = <<[kind |-> "table", on |-> 1, ok |-> FALSE], [kind |-> "table", on |-> 2, ok |-> TRUE],
                 [kind |-> "index", on |-> 1, ok |-> FALSE], [kind |-> "index", on |-> 2, ok |-> FALSE]>>
  /\ Len(vRep.issues) = 3

\* live process q wrote the marker now on disk: it holds the lock under a
\* record naming it, or it has created or emptied the file and not yet
\* written its record
WroteMarker(q) ==
  /\ alive[q] /\ marker.exists
  /\ \/ pc[q] = "acq_write" /\ inst[q][cur[q]].fd = "linked"
     \/ HoldsLock(q) /\ Names(marker.text, pidOf[q])

\* C33: the openSync(lockPath, 'w') of an acquire never empties a marker
\* that another process, still alive, has written or is writing.
C33_LiveMarkerKept ==
  [][\A p \in Procs :
       (alive[p] /\ pc[p] = "acq_open" /\ pc'[p] = "acq_write") =>
         ~\E q \in Procs \ {p} : WroteMarker(q)]_vars

\* process p releases a descriptor in this step
Releases(p) == \E i \in Inst : inst[p][i].fd # "null" /\ alive'[p] /\ inst'[p][i].fd = "null"

\* C34: a release that removes the marker removes a marker naming the
\* releasing process, and leaves no other live process holding the lock
\* without a marker.
C34_ReleaseKeepsOthersMarker ==
  [][\A p \in Procs :
       (Releases(p) /\ marker.exists /\ ~marker'.exists) =>
         /\ Names(marker.text, pidOf[p])
         /\ \A q \in Procs \ {p} : ~HoldsLock(q)]_vars

\* C35: the rename of #moveDataDirToBackup never takes the directory away
\* while another live process holds the lock or runs initdb on it.
C35_NoQuarantineUnderHolder ==
  [][\A p \in Procs :
       (alive[p] /\ pc[p] = "mv_rename" /\ pc'[p] = "mv_mkdir") =>
         \A q \in Procs \ {p} : ~(HoldsLock(q) \/ (alive[q] /\ pc[q] = "initdb"))]_vars

\* C36: the rename and the mkdir of a quarantine leave the marker and the
\* descriptors as they are, so the quarantining process still holds the lock
\* under a marker naming it.
C36_QuarantineKeepsMarker ==
  [][\A p \in Procs :
       (alive[p] /\ pc[p] \in {"mv_rename", "mv_mkdir"} /\ pc'[p] # pc[p]) =>
         /\ marker' = marker /\ inst' = inst
         /\ (Names(marker.text, pidOf[p]) /\ inst[p][cur[p]].fd = "open") =>
               (marker'.exists /\ Names(marker'.text, pidOf[p]) /\ inst'[p][cur[p]].fd = "open")]_vars

\* C36 witness: the directory was moved to a backup and made anew, and the
\* marker names the process that did it, which holds its descriptor.
C36_Witness ==
  /\ alive[1] /\ pc[1] = "eng_start" /\ dir = EmptyDir
  /\ \E t \in Times : backups[t].exists /\ EntryCount(backups[t]) > 0
  /\ marker.exists /\ Names(marker.text, pidOf[1]) /\ inst[1][cur[1]].fd = "open"

\* C37: an instance whose acquire failed has no descriptor, and closing it
\* changes neither the marker nor any other instance's descriptor.
C37_FailedCloseKeepsMarker ==
  [][\A p \in Procs : \A i \in Inst :
       (alive[p] /\ inst[p][i].st = "failed") =>
         /\ inst[p][i].fd = "null"
         /\ (inst'[p][i].st = "closed") =>
               /\ marker' = marker
               /\ \A q \in Procs : \A j \in Inst : inst'[q][j].fd = inst[q][j].fd]_vars

\* C37 witness: the worker holds the lock under its marker, and the instance
\* of the coordinator that was refused with the worker's pid has been closed.
C37_Witness ==
  /\ alive[2] /\ inst[2][1].fd = "open" /\ marker = File(LockText(pidOf[2], 0))
  /\ \E i \in Inst : inst[1][i].st = "closed" /\ inst[1][i].err = pidOf[2]

\* C38: once tryOpen has returned a failure, the instance it created holds
\* no descriptor on the marker.
C38_FailedOpenHoldsNoLock ==
  (tRes.st = "returned" /\ ~tRes.success) => inst[1][tInst].fd = "null"

\* C39: once the 'exit' handler has run, neither the kill timer nor the
\* safety timeout of the run is still set.
C39_NoTimerAfterExit ==
  (exitEv.st = "handled") => (killTimer # "armed" /\ safety # "armed")

====
